---- MODULE Spec2Model ----
(***************************************************************************)
(* Model of launch/launch_inspection_bot.launch.py: the one function       *)
(* generate_launch_description, the launch actions it constructs and the   *)
(* list it returns.  The function reads three things from its surroundings:*)
(* the process environment (TURTLEBOT3_MODEL), the ament index (the share  *)
(* directory of a package) and, through the LaunchConfiguration it builds, *)
(* the launch configurations of the invocation (use_sim_time:=...).        *)
(*                                                                         *)
(* Paths are strings, os.path.join and + are string concatenation.  A      *)
(* Python dict is a sequence of <<key, value>> pairs in insertion order.   *)
(* A launch argument value is either a text [text |-> s] or a substitution *)
(* [variable_name |-> n, default |-> d]; a Python bool is [bool |-> b].    *)
(***************************************************************************)
EXTENDS Naturals, Sequences, FiniteSets, TLC

VARIABLES
    environ,                \* os.environ restricted to TURTLEBOT3_MODEL: a dict
    launch_configurations,  \* the invocation's name:=value arguments: a dict
    ament_prefix,           \* install prefix the ament index resolves packages under
    slam_config_yaml,       \* the parameters config/slam_config.yaml holds: a dict
    pc,                     \* "start" before the call, "generated" after it
    declared,               \* the launch actions the call constructed, in order
    ld,                     \* the list the call returned (the LaunchDescription)
    prev_ld                 \* the list the previous invocation returned

vars == <<environ, launch_configurations, ament_prefix, slam_config_yaml,
          pc, declared, ld, prev_ld>>

(***************************************************************************)
(* Input domains.                                                          *)
(***************************************************************************)
ModelNames == {"burger", "waffle", "waffle_pi", ""}

Environs == {<<>>} \cup {<< <<"TURTLEBOT3_MODEL", m>> >> : m \in ModelNames}

SimTimeTexts == {"true", "false", "True"}

LaunchArguments == {<<>>} \cup {<< <<"use_sim_time", v>> >> : v \in SimTimeTexts}

AmentPrefixes == {"/opt/ros/humble", "/ws/install"}

YamlContents == {<<>>} \cup {<< <<"use_sim_time", [bool |-> b]>> >> : b \in BOOLEAN}

(***************************************************************************)
(* Python dict helpers.                                                    *)
(***************************************************************************)
Has(dict, key) == \E i \in 1..Len(dict) : dict[i][1] = key

Get(dict, key) == dict[CHOOSE i \in 1..Len(dict) : dict[i][1] = key][2]

\* dict.get(key, default)
DictGet(dict, key, default) == IF Has(dict, key) THEN Get(dict, key) ELSE default

\* os.path.join(a, b)
os_path_join(a, b) == a \o "/" \o b

\* ament_index_python.get_package_share_directory(package)
get_package_share_directory(prefix, package) == prefix \o "/share/" \o package

(***************************************************************************)
(* Launch action constructors.                                             *)
(***************************************************************************)
TextValue(s) == [text |-> s]

LaunchConfiguration(name, default) == [variable_name |-> name, default |-> default]

ExecuteProcess(cmd, output) ==
    [action |-> "ExecuteProcess", cmd |-> cmd, output |-> output]

IncludeLaunchDescription(source, launch_arguments) ==
    [action |-> "IncludeLaunchDescription", source |-> source,
     launch_arguments |-> launch_arguments]

(***************************************************************************)
(* The locals of generate_launch_description, in the order of the source.  *)
(***************************************************************************)
pkg_inspection_bot(prefix) == get_package_share_directory(prefix, "inspection_bot")

world_file_path(prefix) ==
    os_path_join(os_path_join(pkg_inspection_bot(prefix), "worlds"), "industry.world")

slam_config_path(prefix) ==
    os_path_join(os_path_join(pkg_inspection_bot(prefix), "config"), "slam_config.yaml")

nav2_tb3(prefix) == get_package_share_directory(prefix, "nav2_bringup")

launch_file_dir(prefix) ==
    os_path_join(get_package_share_directory(prefix, "turtlebot3_gazebo"), "launch")

use_sim_time == LaunchConfiguration("use_sim_time", "true")

map_dir(prefix) ==
    os_path_join(os_path_join(get_package_share_directory(prefix, "inspection_bot"),
                              "maps"), "my_map.yaml")

gazebo(prefix) ==
    ExecuteProcess(<<"gazebo", "--verbose", world_file_path(prefix), "-s",
                     "libgazebo_ros_factory.so">>, "screen")

turtlebot3_model_default(env) == "waffle_pi"

turtlebot3_model(env) == DictGet(env, "TURTLEBOT3_MODEL", "waffle_pi")

tb3_spawn_launch_file(prefix) ==
    os_path_join(os_path_join(get_package_share_directory(prefix, "turtlebot3_gazebo"),
                              "launch"), "spawn_turtlebot3.launch.py")

spawn_tb3(prefix, env) ==
    IncludeLaunchDescription(tb3_spawn_launch_file(prefix),
                             << <<"model", TextValue(turtlebot3_model(env))>> >>)

slam_toolbox(prefix) ==
    [action |-> "Node", package |-> "slam_toolbox",
     executable |-> "async_slam_toolbox_node", name |-> "slam_toolbox",
     output |-> "screen",
     parameters |-> << [file |-> slam_config_path(prefix)],
                       [dict |-> << <<"use_sim_time", [bool |-> TRUE]>> >>] >>]

aruco_node ==
    [action |-> "Node", package |-> "ros2_aruco", executable |-> "aruco_node",
     name |-> "aruco_node"]

node_tf2_fp2laser ==
    [action |-> "Node", name |-> "tf2_ros_fp_laser", package |-> "tf2_ros",
     executable |-> "static_transform_publisher", output |-> "screen",
     arguments |-> <<"0", "0", "0", "0.0", "0.0", "0.0", "base_footprint", "laser">>]

node_tf2_fp2map ==
    [action |-> "Node", name |-> "tf2_ros_fp_map", package |-> "tf2_ros",
     executable |-> "static_transform_publisher", output |-> "screen",
     arguments |-> <<"0", "0", "0", "0.0", "0.0", "0.0", "base_footprint", "map">>]

node_tf2_fp2odom ==
    [action |-> "Node", name |-> "tf2_ros_fp_odom", package |-> "tf2_ros",
     executable |-> "static_transform_publisher", output |-> "screen",
     arguments |-> <<"0", "0", "0", "0.0", "0.0", "0.0", "base_footprint", "odom">>]

robot_state_publisher_cmd(prefix) ==
    IncludeLaunchDescription(
        os_path_join(launch_file_dir(prefix), "robot_state_publisher.launch.py"),
        << <<"use_sim_time", use_sim_time>> >>)

nav_launch(prefix) ==
    IncludeLaunchDescription(
        nav2_tb3(prefix) \o "/launch/bringup_launch.py",
        << <<"map", TextValue(map_dir(prefix))>>,
           <<"params_file", TextValue(nav2_tb3(prefix) \o "/params/nav2_params.yaml")>>,
           <<"use_sim_time", use_sim_time>> >>)

\* Every launch action the function body constructs, in construction order.
ConstructedActions(prefix, env) ==
    << gazebo(prefix), spawn_tb3(prefix, env), slam_toolbox(prefix), aruco_node,
       node_tf2_fp2laser, node_tf2_fp2map, node_tf2_fp2odom,
       robot_state_publisher_cmd(prefix), nav_launch(prefix) >>

LaunchDescription_navFirst(prefix, env) ==
    << nav_launch(prefix), gazebo(prefix), spawn_tb3(prefix, env),
       slam_toolbox(prefix), aruco_node, robot_state_publisher_cmd(prefix) >>

\* The list of the return statement.
LaunchDescription(prefix, env) ==
    << gazebo(prefix), spawn_tb3(prefix, env), slam_toolbox(prefix), aruco_node,
       robot_state_publisher_cmd(prefix), nav_launch(prefix) >>

(***************************************************************************)
(* The state machine: one invocation of the launch file after another.     *)
(***************************************************************************)
Init ==
    /\ environ \in Environs
    /\ launch_configurations \in LaunchArguments
    /\ ament_prefix \in AmentPrefixes
    /\ slam_config_yaml \in YamlContents
    /\ pc = "start"
    /\ declared = <<>>
    /\ ld = <<>>
    /\ prev_ld = <<>>

generate_launch_description ==
    /\ pc = "start"
    /\ declared' = ConstructedActions(ament_prefix, environ)
    /\ ld' = LaunchDescription(ament_prefix, environ)
    /\ pc' = "generated"
    /\ UNCHANGED <<environ, launch_configurations, ament_prefix, slam_config_yaml,
                   prev_ld>>

\* The launch file is invoked again, by a caller with another environment and
\* other command-line arguments, on the same installation.
NewInvocation ==
    /\ pc = "generated"
    /\ \E env \in Environs, args \in LaunchArguments :
          /\ environ' = env
          /\ launch_configurations' = args
    /\ prev_ld' = ld
    /\ declared' = <<>>
    /\ ld' = <<>>
    /\ pc' = "start"
    /\ UNCHANGED <<ament_prefix, slam_config_yaml>>

Next == generate_launch_description \/ NewInvocation

Spec == Init /\ [][Next]_vars

(***************************************************************************)
(* What a unit of the returned list receives when the launch runtime       *)
(* starts it: a Node the merge of its parameters entries, left to right,   *)
(* a later entry winning; an included launch file its launch_arguments     *)
(* with every substitution performed against the launch configurations;    *)
(* a bare process nothing.                                                 *)
(***************************************************************************)
\* LaunchConfiguration.perform: the configured value, else the default.
Perform(value, context) ==
    IF "variable_name" \in DOMAIN value
    THEN TextValue(DictGet(context, value.variable_name, value.default))
    ELSE value

\* dict.update of a single key.
Put(dict, key, value) ==
    IF Has(dict, key)
    THEN [i \in 1..Len(dict) |-> IF dict[i][1] = key THEN <<key, value>> ELSE dict[i]]
    ELSE Append(dict, <<key, value>>)

RECURSIVE Update(_, _)
Update(dict, other) ==
    IF other = <<>> THEN dict
    ELSE Update(Put(dict, other[1][1], other[1][2]), Tail(other))

\* The dict one entry of a Node's parameters list stands for.
ParameterEntry(entry, yaml) == IF "file" \in DOMAIN entry THEN yaml ELSE entry.dict

RECURSIVE MergeParameters(_, _, _)
MergeParameters(entries, yaml, acc) ==
    IF entries = <<>> THEN acc
    ELSE MergeParameters(Tail(entries), yaml,
                         Update(acc, ParameterEntry(Head(entries), yaml)))

EffectiveParameters(unit, context, yaml) ==
    CASE unit.action = "Node" ->
           IF "parameters" \in DOMAIN unit
           THEN MergeParameters(unit.parameters, yaml, <<>>)
           ELSE <<>>
      [] unit.action = "IncludeLaunchDescription" ->
           [i \in 1..Len(unit.launch_arguments) |->
               <<unit.launch_arguments[i][1],
                 Perform(unit.launch_arguments[i][2], context)>>]
      [] OTHER -> <<>>

\* The boolean a parameter value is read as by the node that receives it.
AsBool(value) ==
    IF "bool" \in DOMAIN value THEN value.bool ELSE value.text \in {"true", "True"}

\* A unit's own override of a key: a literal dict entry of its parameters.
OverridesKey(unit, key) ==
    /\ unit.action = "Node"
    /\ "parameters" \in DOMAIN unit
    /\ \E i \in 1..Len(unit.parameters) :
          /\ "dict" \in DOMAIN unit.parameters[i]
          /\ Has(unit.parameters[i].dict, key)

\* The value of that override: the last literal entry that holds the key.
OverrideValue(unit, key) ==
    LET holds == {i \in 1..Len(unit.parameters) :
                    /\ "dict" \in DOMAIN unit.parameters[i]
                    /\ Has(unit.parameters[i].dict, key)}
        last == CHOOSE i \in holds : \A j \in holds : j <= i
    IN  Get(unit.parameters[last].dict, key)

(***************************************************************************)
(* How the units of a list are told apart.                                 *)
(***************************************************************************)
IsSimulator(unit) == unit.action = "ExecuteProcess" /\ unit.cmd[1] = "gazebo"

IsSpawner(unit) ==
    unit.action = "IncludeLaunchDescription" /\ Has(unit.launch_arguments, "model")

IsNavigation(unit) ==
    unit.action = "IncludeLaunchDescription" /\ Has(unit.launch_arguments, "map")

IsStatePublisher(unit) ==
    /\ unit.action = "IncludeLaunchDescription"
    /\ ~Has(unit.launch_arguments, "model")
    /\ ~Has(unit.launch_arguments, "map")

UnitKey(unit) ==
    CASE IsSimulator(unit) -> "gazebo"
      [] IsSpawner(unit) -> "spawn_tb3"
      [] IsNavigation(unit) -> "nav_launch"
      [] IsStatePublisher(unit) -> "robot_state_publisher_cmd"
      [] OTHER -> unit.name

Keys(list) == [i \in 1..Len(list) |-> UnitKey(list[i])]

\* The place of the unit called key in the list.
Position(list, key) == CHOOSE i \in 1..Len(list) : UnitKey(list[i]) = key

Generated == pc = "generated"

SimTimeKey == "use_sim_time"

Received(unit) == EffectiveParameters(unit, launch_configurations, slam_config_yaml)

(***************************************************************************)
(* C1: every launch action the function declares, the three static         *)
(* coordinate-frame publishers included, is an element of the list it      *)
(* returns.                                                                *)
(***************************************************************************)
C1_EveryDeclaredUnitReturned ==
    Generated =>
        \A i \in 1..Len(declared) : \E j \in 1..Len(ld) : ld[j] = declared[i]

(***************************************************************************)
(* C2: when the caller supplies use_sim_time on the command line, every    *)
(* unit that receives a use_sim_time parameter receives the caller's value.*)
(***************************************************************************)
C2_CommandLineOverrideWins ==
    (Generated /\ Has(launch_configurations, SimTimeKey)) =>
        \A i \in 1..Len(ld) :
            Has(Received(ld[i]), SimTimeKey) =>
                AsBool(Get(Received(ld[i]), SimTimeKey))
                    = AsBool(TextValue(Get(launch_configurations, SimTimeKey)))

(***************************************************************************)
(* C3: with no command-line override, a unit that overrides use_sim_time   *)
(* itself receives its own value, and every other unit receives the        *)
(* session default.                                                        *)
(***************************************************************************)
C3_OverrideElseSessionDefault ==
    (Generated /\ ~Has(launch_configurations, SimTimeKey)) =>
        \A i \in 1..Len(ld) :
            /\ Has(Received(ld[i]), SimTimeKey)
            /\ AsBool(Get(Received(ld[i]), SimTimeKey))
                   = IF OverridesKey(ld[i], SimTimeKey)
                     THEN AsBool(OverrideValue(ld[i], SimTimeKey))
                     ELSE AsBool(TextValue(use_sim_time.default))

(***************************************************************************)
(* C4 as stated: for every acyclic dependency graph over the units of the  *)
(* list (here: every one of at most two edges, an edge <<a, b>> reading    *)
(* "a depends on b"), each unit comes after the units it depends on.       *)
(***************************************************************************)
Acyclic(graph) ==
    /\ \A e \in graph : e[1] # e[2]
    /\ \A e, f \in graph : ~(e[1] = f[2] /\ e[2] = f[1])

Respects(list, graph) ==
    \A e \in graph : Position(list, e[2]) < Position(list, e[1])

UnitKeys(list) == {UnitKey(list[i]) : i \in 1..Len(list)}

C10_InputsChangeOnlyModelAndSimTime ==
    Generated =>
        /\ Keys(ld) = <<"gazebo", "spawn_tb3", "slam_toolbox", "aruco_node",
                        "robot_state_publisher_cmd", "nav_launch">>
        /\ Get(ld[2].launch_arguments, "model").text
               = IF Has(environ, "TURTLEBOT3_MODEL")
                 THEN Get(environ, "TURTLEBOT3_MODEL") ELSE "waffle_pi"
        /\ \A i \in {5, 6} :
               Get(Received(ld[i]), SimTimeKey).text
                   = IF Has(launch_configurations, SimTimeKey)
                     THEN Get(launch_configurations, SimTimeKey) ELSE "true"
        /\ prev_ld # <<>> =>
               /\ Len(prev_ld) = Len(ld)
               /\ \A i \in {1, 3, 4, 5, 6} : ld[i] = prev_ld[i]
               /\ ld[2].source = prev_ld[2].source
               /\ Keys(prev_ld) = Keys(ld)

C10_Witness ==
    /\ Generated
    /\ prev_ld # <<>>
    /\ Has(environ, "TURTLEBOT3_MODEL")
    /\ Has(launch_configurations, SimTimeKey)
    /\ Get(ld[2].launch_arguments, "model") # Get(prev_ld[2].launch_arguments, "model")
    /\ Get(Received(ld[6]), SimTimeKey).text = "false"

====
